---------------------------- MODULE Spec2Model ----------------------------
(***************************************************************************)
(* SmartTranscribe (src/main.py): the POST /transcribe handler, the GET    *)
(* /health handler and the two pure URL functions detect_platform and      *)
(* extract_youtube_video_id.                                               *)
(*                                                                         *)
(* A Python str is a sequence of one-character strings, so that `in`,      *)
(* split, lower, urlparse and parse_qs are computed character by           *)
(* character.  None is PyNone.  An exception message is a sequence of      *)
(* message parts, outermost wrapper first.                                 *)
(*                                                                         *)
(* The collaborators (tempfile, requests, yt_dlp, speech_recognition) are  *)
(* nondeterministic: a call returns or raises an Exception.  The steps of  *)
(* concurrent requests interleave freely; they meet only in the file       *)
(* system.  Spec is the service; SpecPure runs detect_platform and         *)
(* extract_youtube_video_id on every string of PureInputs.                 *)
(***************************************************************************)
EXTENDS Integers, Sequences, FiniteSets, TLC

VARIABLES
    pc,          \* per request: position in transcribe_video
    url,         \* per request: video_data.url
    platform,    \* per request: local `platform`
    temp_dir,    \* per request: local `temp_dir` (None or a directory name)
    audio_url,   \* per request: local `audio_url`
    audio_file,  \* per request: local `audio_file`
    calls,       \* per request: the pipeline functions invoked, in order
    recog,       \* per request: what recognize_google did
    resp,        \* per request: the HTTP response of the handler
    failure,     \* per request: the message of the first exception raised
    sent,        \* per request: the status code that left the handler
    dirOwner,    \* file system: which request's mkdtemp created the directory
    dirFiles,    \* file system: the files inside each directory
    healthResp,  \* the latest response of GET /health
    p_pc,        \* pure-function run: position
    p_url,       \* pure-function run: the input string
    p_platform,  \* pure-function run: detect_platform(p_url)
    p_id,        \* pure-function run: extract_youtube_video_id(p_url)
    p_id2        \* pure-function run: extract_youtube_video_id fed its own result

hvars == <<pc, url, platform, temp_dir, audio_url, audio_file, calls, recog,
           resp, failure, sent, dirOwner, dirFiles, healthResp>>
pvars == <<p_pc, p_url, p_platform, p_id, p_id2>>
vars == <<hvars, pvars>>

---------------------------------------------------------------------------
(* Python values and str operations                                        *)

PyNone == [t |-> "None", s |-> <<>>]
PyStr(s) == [t |-> "str", s |-> s]

\* the printable ASCII characters, 0x20 .. 0x7E, in code order (0x60 is
\* written "\\x60")
Ascii == <<
    " ","!","\"","#","$","%","&","'","(",")","*","+",",","-",".","/",
    "0","1","2","3","4","5","6","7","8","9",":",";","<","=",">","?",
    "@","A","B","C","D","E","F","G","H","I","J","K","L","M","N","O",
    "P","Q","R","S","T","U","V","W","X","Y","Z","[","\\","]","^","_",
    "\\x60","a","b","c","d","e","f","g","h","i","j","k","l","m","n","o",
    "p","q","r","s","t","u","v","w","x","y","z","{","|","}","~">>

UpperChars == <<"A","B","C","D","E","F","G","H","I","J","K","L","M","N","O","P","Q","R","S","T","U","V","W","X","Y","Z">>
LowerChars == <<"a","b","c","d","e","f","g","h","i","j","k","l","m","n","o","p","q","r","s","t","u","v","w","x","y","z">>
DigitChars == <<"0","1","2","3","4","5","6","7","8","9">>

Range(s) == {s[i] : i \in 1..Len(s)}

\* 1-based index of the first x in s, 0 when absent (str.find + 1)
Find(s, x) ==
    IF \E i \in 1..Len(s) : s[i] = x
    THEN CHOOSE i \in 1..Len(s) : s[i] = x /\ \A j \in 1..(i - 1) : s[j] # x
    ELSE 0

\* 1-based index of the last x in s, 0 when absent (str.rfind + 1)
RFind(s, x) ==
    IF \E i \in 1..Len(s) : s[i] = x
    THEN CHOOSE i \in 1..Len(s) : s[i] = x /\ \A j \in (i + 1)..Len(s) : s[j] # x
    ELSE 0

\* sub in s
Contains(s, sub) ==
    \E i \in 1..(Len(s) - Len(sub) + 1) : SubSeq(s, i, i + Len(sub) - 1) = sub

\* s[i:] with i 1-based
From(s, i) == SubSeq(s, i, Len(s))

\* str.lower() on ASCII
LowerChar(c) == IF c \in Range(UpperChars) THEN LowerChars[Find(UpperChars, c)] ELSE c
Lower(s) == [i \in 1..Len(s) |-> LowerChar(s[i])]

\* s.split(x)[-1]
SplitLast(s, x) == From(s, RFind(s, x) + 1)

\* s.split(x)[0]
SplitFirst(s, x) == IF Find(s, x) = 0 THEN s ELSE SubSeq(s, 1, Find(s, x) - 1)

\* s.split(x)
RECURSIVE Split(_, _)
Split(s, x) ==
    IF Find(s, x) = 0 THEN <<s>>
    ELSE <<SubSeq(s, 1, Find(s, x) - 1)>> \o Split(From(s, Find(s, x) + 1), x)

---------------------------------------------------------------------------
(* urllib.parse: urlparse(url).query and parse_qs                          *)

HexChars == <<"0","1","2","3","4","5","6","7","8","9","a","b","c","d","e","f">>
IsHex(c) == LowerChar(c) \in Range(HexChars)
HexVal(c) == Find(HexChars, LowerChar(c)) - 1

\* chr(n) for a decoded byte; bytes outside printable ASCII decode to a
\* character that is none of the characters of the model's strings
Chr(n) == IF n \in 32..126 THEN Ascii[n - 31] ELSE "\\x"

\* urllib.parse.unquote: every %XX with two hex digits is decoded, any other
\* % is kept
RECURSIVE unquote(_)
unquote(s) ==
    IF s = <<>> THEN <<>>
    ELSE IF s[1] = "%" /\ Len(s) >= 3 /\ IsHex(s[2]) /\ IsHex(s[3])
         THEN <<Chr(16 * HexVal(s[2]) + HexVal(s[3]))>> \o unquote(From(s, 4))
         ELSE <<s[1]>> \o unquote(Tail(s))

\* s.replace('+', ' ')
PlusToSpace(s) == [i \in 1..Len(s) |-> IF s[i] = "+" THEN " " ELSE s[i]]

SchemeChars == Range(UpperChars) \cup Range(LowerChars) \cup Range(DigitChars)
                   \cup {"+", "-", "."}

\* urllib.parse.urlsplit: scheme, netloc, path, query, fragment
urlsplit(u) ==
    LET i == Find(u, ":")
        hasScheme == /\ i > 1
                     /\ u[1] \in Range(UpperChars) \cup Range(LowerChars)
                     /\ \A k \in 1..(i - 1) : u[k] \in SchemeChars
        r1 == IF hasScheme THEN From(u, i + 1) ELSE u
        hasNetloc == Len(r1) >= 2 /\ SubSeq(r1, 1, 2) = <<"/","/">>
        ends == {k \in 3..Len(r1) : r1[k] \in {"/", "?", "#"}}
        delim == IF ends = {} THEN Len(r1) + 1
                 ELSE CHOOSE k \in ends : \A j \in ends : k <= j
        r2 == IF hasNetloc THEN From(r1, delim) ELSE r1
        h == Find(r2, "#")
        r3 == IF h = 0 THEN r2 ELSE SubSeq(r2, 1, h - 1)
        q == Find(r3, "?")
    IN  [scheme   |-> IF hasScheme THEN Lower(SubSeq(u, 1, i - 1)) ELSE <<>>,
         netloc   |-> IF hasNetloc THEN SubSeq(r1, 3, delim - 1) ELSE <<>>,
         path     |-> IF q = 0 THEN r3 ELSE SubSeq(r3, 1, q - 1),
         query    |-> IF q = 0 THEN <<>> ELSE From(r3, q + 1),
         fragment |-> IF h = 0 THEN <<>> ELSE From(r2, h + 1)]

\* urllib.parse.parse_qsl with its defaults: fields are split on '&'; a field
\* without '=' or with an empty value is dropped; '+' becomes a space and
\* %XX is decoded in names and values
RECURSIVE parse_fields(_)
parse_fields(fields) ==
    IF fields = <<>> THEN <<>>
    ELSE LET f == Head(fields)
             e == Find(f, "=")
         IN  IF e = 0 \/ From(f, e + 1) = <<>>
             THEN parse_fields(Tail(fields))
             ELSE <<[name  |-> unquote(PlusToSpace(SubSeq(f, 1, e - 1))),
                     value |-> unquote(PlusToSpace(From(f, e + 1)))]>>
                  \o parse_fields(Tail(fields))

parse_qsl(qs) == parse_fields(Split(qs, "&"))

\* parse_qs(qs).get(key, [None])[0]: the first value of key, or None
parse_qs_get(qs, key) ==
    LET pairs == parse_qsl(qs)
        hits == {k \in 1..Len(pairs) : pairs[k].name = key}
    IN  IF hits = {} THEN PyNone
        ELSE PyStr(pairs[CHOOSE k \in hits : \A j \in hits : k <= j].value)

---------------------------------------------------------------------------
(* Exceptions and results                                                  *)

\* a call that returned v
Return(v) == [kind |-> "return", val |-> v, msg |-> <<>>]
\* a call that raised an exception whose str() is the message parts m
Raise(m) == [kind |-> "raise", val |-> PyNone, msg |-> m]
\* raise Exception(f"prefix{str(e)}") for the caught exception of result r
Wrap(prefix, r) == IF r.kind = "raise" THEN Raise(<<prefix>> \o r.msg) ELSE r

---------------------------------------------------------------------------
(* detect_platform and extract_youtube_video_id                            *)

\* the length extract_youtube_video_id accepts as a bare id
IdLen == 11

\* the first branch of detect_platform taken by the lowered URL
PlatformOfLowered(url_lower) ==
    IF Contains(url_lower, <<"y","o","u","t","u","b","e",".","c","o","m">>) \/ Contains(url_lower, <<"y","o","u","t","u",".","b","e">>)
    THEN "youtube"
    ELSE IF Contains(url_lower, <<"v","i","m","e","o",".","c","o","m">>) THEN "vimeo"
    ELSE IF Contains(url_lower, <<"t","i","k","t","o","k",".","c","o","m">>) THEN "tiktok"
    ELSE IF Contains(url_lower, <<"i","n","s","t","a","g","r","a","m",".","c","o","m">>) THEN "instagram"
    ELSE IF Contains(url_lower, <<"t","w","i","t","t","e","r",".","c","o","m">>) \/ Contains(url_lower, <<"x",".","c","o","m">>)
    THEN "twitter"
    ELSE IF Contains(url_lower, <<"r","u","m","b","l","e",".","c","o","m">>) THEN "rumble"
    ELSE IF Contains(url_lower, <<"d","a","i","l","y","m","o","t","i","o","n",".","c","o","m">>) THEN "dailymotion"
    ELSE "other"

detect_platform(u) == PlatformOfLowered(Lower(u))

\* the body of the try block of extract_youtube_video_id
ExtractBody(u) ==
    IF Contains(u, <<"y","o","u","t","u",".","b","e">>)
    THEN Return(PyStr(SplitFirst(SplitLast(u, "/"), "?")))
    ELSE IF Contains(u, <<"y","o","u","t","u","b","e",".","c","o","m">>)
    THEN Return(parse_qs_get(urlsplit(u).query, <<"v">>))
    ELSE IF Len(u) = IdLen
    THEN Return(PyStr(u))
    ELSE Raise(<<"Invalid YouTube URL">>)

extract_youtube_video_id(u) == Wrap("Failed to extract video ID: ", ExtractBody(u))

---------------------------------------------------------------------------
(* The inputs of the pure-function runs: every URL                        *)
(* https:// + host + path + query + fragment over the parts below, and    *)
(* the bare strings                                                        *)

Hosts == {<<"w","w","w",".","y","o","u","t","u","b","e",".","c","o","m">>, <<"y","o","u","t","u","b","e",".","c","o","m">>, <<"m",".","y","o","u","t","u","b","e",".","c","o","m">>, <<"y","o","u","t","u",".","b","e">>,
          <<"w","w","w",".","Y","o","u","T","u","b","e",".","c","o","m">>, <<"v","i","m","e","o",".","c","o","m">>, <<"t","i","k","t","o","k",".","c","o","m">>, <<"i","n","s","t","a","g","r","a","m",".","c","o","m">>,
          <<"t","w","i","t","t","e","r",".","c","o","m">>, <<"x",".","c","o","m">>, <<"r","u","m","b","l","e",".","c","o","m">>, <<"d","a","i","l","y","m","o","t","i","o","n",".","c","o","m">>,
          <<"n","e","t","f","l","i","x",".","c","o","m">>, <<"e","x","a","m","p","l","e",".","o","r","g">>}
Paths == {<<>>, <<"/">>, <<"/","w","a","t","c","h">>, <<"/","a","b","c","1","2","3","4","5","6","7","8">>, <<"/","a","b","c">>}
Queries == {<<>>, <<"?","v","=","a","b","c","1","2","3","4","5","6","7","8">>, <<"?","v","=","a","b","c">>, <<"?","v","=">>, <<"?","t","=","1","&","v","=","a","b","c","1","2","3","4","5","6","7","8">>,
            <<
    "?","v","=","a","b","c","1","2","3","4","5","6","7","8","&","f",
    "e","a","t","u","r","e","=","y","o","u","t","u",".","b","e">>, <<"?","v","=","y","o","u","t","u","%","2","E","b","e","%","2","F","a","b">>,
            <<"?","v","=","y","o","u","t","u","b","e",".","c","o","m">>, <<"?","l","i","s","t","=","P","L","1">>, <<"?","v","=","a","+","b">>}
Fragments == {<<>>, <<"#","t","=","1">>}
BareInputs == {<<>>, <<"a","b","c","1","2","3","4","5","6","7","8">>, <<"a","b","c">>, <<"y","o","u","t","u",".","b","e","/","a","b","c","1","2","3","4","5","6","7","8">>,
               <<
    "y","o","u","t","u","b","e",".","c","o","m","/","w","a","t","c",
    "h","?","v","=","a","b","c","1","2","3","4","5","6","7","8">>}

PureInputs == {<<"h","t","t","p","s",":","/","/">> \o h \o p \o q \o f :
                   h \in Hosts, p \in Paths, q \in Queries, f \in Fragments}
                  \cup BareInputs

NoResult == [kind |-> "none", val |-> PyNone, msg |-> <<>>]

InitPureVars ==
    /\ p_pc = "start"
    /\ p_url \in PureInputs
    /\ p_platform = "unset"
    /\ p_id = NoResult
    /\ p_id2 = NoResult

IdlePureVars ==
    /\ p_pc = "off"
    /\ p_url = <<>>
    /\ p_platform = "unset"
    /\ p_id = NoResult
    /\ p_id2 = NoResult

\* platform = detect_platform(url)
PureDetect ==
    /\ p_pc = "start"
    /\ p_platform' = detect_platform(p_url)
    /\ p_pc' = "detected"
    /\ UNCHANGED <<p_url, p_id, p_id2, hvars>>

\* video_id = extract_youtube_video_id(url)
PureExtract ==
    /\ p_pc = "detected"
    /\ p_id' = extract_youtube_video_id(p_url)
    /\ p_pc' = "extracted"
    /\ UNCHANGED <<p_url, p_platform, p_id2, hvars>>

\* extract_youtube_video_id(video_id), for a video_id that is a str
PureReExtract ==
    /\ p_pc = "extracted"
    /\ p_id.kind = "return"
    /\ p_id.val.t = "str"
    /\ p_id2' = extract_youtube_video_id(p_id.val.s)
    /\ p_pc' = "fedback"
    /\ UNCHANGED <<p_url, p_platform, p_id, hvars>>

NextPure == PureDetect \/ PureExtract \/ PureReExtract

---------------------------------------------------------------------------
(* POST /transcribe: the state of the requests and of the file system      *)

\* the number of transcribe requests
NumRequests == 2
Req == 1..NumRequests

\* the directory names tempfile.mkdtemp can draw: one per request is enough
\* for a fresh name to exist always; a name is free again once removed
DirNames == 1..NumRequests

NoneDir == 0    \* temp_dir = None
NoOwner == 0    \* the directory does not exist

NoPath == [dir |-> NoneDir, name |-> <<>>]
\* os.path.join(temp_dir, "audio")
OutputTemplate(d) == [dir |-> d, name |-> <<"audio">>]
\* path + ".mp3"
WithMp3(p) == [dir |-> p.dir, name |-> p.name \o <<".mp3">>]

\* the URLs posted to /transcribe; a request's url is kept as its index here
HandlerUrls == <<<<
    "h","t","t","p","s",":","/","/","w","w","w",".","y","o","u","t",
    "u","b","e",".","c","o","m","/","w","a","t","c","h","?","v","=",
    "a","b","c","1","2","3","4","5","6","7","8">>,
                 <<
    "h","t","t","p","s",":","/","/","w","w","w",".","Y","o","u","T",
    "u","b","e",".","c","o","m","/","w","a","t","c","h","?","v","=",
    "a","b","c","1","2","3","4","5","6","7","8">>,
                 <<"h","t","t","p","s",":","/","/","v","i","m","e","o",".","c","o","m","/","a","b","c">>>>
UrlIds == DOMAIN HandlerUrls
NoUrl == 0

NoBody == [url |-> NoUrl, transcript |-> "", platform |-> "", status |-> ""]
NoResp == [status |-> 0, detail |-> <<>>, body |-> NoBody]

\* TranscriptionResponse(url=, transcript=, platform=, status="success"),
\* sent with HTTP 200
SuccessResponse(u, transcript, p) ==
    [status |-> 200, detail |-> <<>>,
     body |-> [url |-> u, transcript |-> transcript, platform |-> p,
               status |-> "success"]]

\* fault variant: the exception is left to the framework, which answers 500
\* without the message
ExceptResponse_Status500(msg) ==
    [status |-> 500, detail |-> <<"Internal Server Error">>, body |-> NoBody]

\* except Exception as e: raise HTTPException(status_code=400, detail=str(e))
ExceptResponse(msg) == [status |-> 400, detail |-> msg, body |-> NoBody]

---------------------------------------------------------------------------
(* The collaborators: what a call to one of them can do                    *)

\* fault variant: one fixed directory name for every request
mkdtemp_FixedName(owners) == {n \in DirNames : \A m \in DirNames : n <= m}

\* tempfile.mkdtemp(): a directory under a name no existing directory has
mkdtemp(owners) == {n \in DirNames : owners[n] = NoOwner}

\* requests.get(...) of the RapidAPI link lookup: the request raises, or the
\* response has a status other than 200, or a JSON body with or without one
\* of the link keys
LookupOutcomes ==
    {[kind |-> "raise", msg |-> <<"Read timed out">>],
     [kind |-> "status", msg |-> <<"quota exceeded">>],
     [kind |-> "nolink", msg |-> <<"{'error': 'not found'}">>],
     [kind |-> "link", msg |-> <<"https://cdn.example/a.mp3">>]}

\* requests.get(audio_url) and the write of the .mp3 file.  "written" says
\* whether open() created the file before the failure
DownloadOutcomes ==
    {[kind |-> "raise", msg |-> <<"Connection aborted">>, written |-> FALSE],
     [kind |-> "status", msg |-> <<"403">>, written |-> FALSE],
     [kind |-> "oserror", msg |-> <<"No space left on device">>, written |-> TRUE],
     [kind |-> "ok", msg |-> <<>>, written |-> TRUE]}

\* yt_dlp.YoutubeDL(...).extract_info(url, download=True)
YtdlpOutcomes ==
    {[kind |-> "raise", msg |-> <<"ERROR: Unsupported URL">>, written |-> FALSE],
     [kind |-> "raise", msg |-> <<"ERROR: ffmpeg not found">>, written |-> TRUE],
     [kind |-> "ok", msg |-> <<>>, written |-> TRUE]}

\* sr.AudioFile(path) / recognizer.record / recognizer.recognize_google
RecognizerOutcomes ==
    {[kind |-> "unreadable", msg |-> <<"Audio file could not be read">>],
     [kind |-> "text", msg |-> <<>>],
     [kind |-> "unknown_value", msg |-> <<>>],
     [kind |-> "request_error", msg |-> <<"recognition connection failed">>]}

---------------------------------------------------------------------------
(* The pipeline functions, each as the result of its try block wrapped by   *)
(* its except clause                                                        *)

\* try block of get_youtube_audio_via_rapidapi; o is what requests.get did
LookupBody(video_url, o) ==
    LET video_id == extract_youtube_video_id(video_url)
    IN  IF video_id.kind = "raise" THEN video_id
        ELSE IF o.kind = "raise" THEN Raise(o.msg)
        ELSE IF o.kind = "status" THEN Raise(<<"RapidAPI error: ">> \o o.msg)
        ELSE IF o.kind = "nolink"
        THEN Raise(<<"Could not find MP3 URL in response: ">> \o o.msg)
        ELSE Return(o.msg)

get_youtube_audio_via_rapidapi(video_url, o) ==
    Wrap("Failed to get YouTube audio via RapidAPI: ", LookupBody(video_url, o))

\* try block of download_audio_from_url
DownloadBody(output_path, o) ==
    IF o.kind = "raise" THEN Raise(o.msg)
    ELSE IF o.kind = "status"
    THEN Raise(<<"Download failed with status ">> \o o.msg)
    ELSE IF o.kind = "oserror" THEN Raise(o.msg)
    ELSE Return(WithMp3(output_path))

download_audio_from_url(output_path, o) ==
    Wrap("Failed to download audio: ", DownloadBody(output_path, o))

\* try block of extract_audio_via_ytdlp: prepare_filename gives the output
\* template, whose extension (none) is replaced by .mp3
YtdlpBody(output_path, o) ==
    IF o.kind = "raise" THEN Raise(o.msg) ELSE Return(WithMp3(output_path))

extract_audio_via_ytdlp(output_path, o) ==
    Wrap("Failed to extract audio via yt-dlp: ", YtdlpBody(output_path, o))

\* fault variant: no except clause for sr.UnknownValueError
TranscribeBody_UnknownRaises(o) ==
    IF o.kind = "unreadable" THEN Raise(o.msg)
    ELSE IF o.kind = "text" THEN Return("hello world")
    ELSE Raise(<<"Speech recognition service error: ">> \o o.msg)

\* try block of transcribe_audio
TranscribeBody(o) ==
    IF o.kind = "unreadable" THEN Raise(o.msg)
    ELSE IF o.kind = "text" THEN Return("hello world")
    ELSE IF o.kind = "unknown_value" THEN Return("Could not understand the audio")
    ELSE Raise(<<"Speech recognition service error: ">> \o o.msg)

transcribe_audio(o) == Wrap("Failed to transcribe audio: ", TranscribeBody(o))

\* fault variant: yt-dlp whatever the platform
StrategyFor_AlwaysYtdlp(p) == "ytdlp"

\* if platform == 'youtube': RapidAPI, else: yt-dlp
StrategyFor(p) == IF p = "youtube" THEN "rapidapi" ELSE "ytdlp"

\* fault variant: the directory is left behind
rmtree_Noop(owners, d) == owners

\* shutil.rmtree(d): the directory and the files in it are gone (the call
\* is taken to succeed: the directory and its files are the request's own)
rmtree(owners, d) == [owners EXCEPT ![d] = NoOwner]

\* GET /health
HealthBody(status) ==
    [status |-> status,
     service |-> "SAM - Video Transcription API",
     supported_platforms |->
         <<"YouTube (via RapidAPI)", "Vimeo", "TikTok", "Instagram",
           "Twitter/X", "Rumble", "DailyMotion", "And 1000+ more via yt-dlp">>]
NoHealth == HealthBody("")

\* fault variant: a status that depends on the requests
health_check_Degraded ==
    HealthBody(IF \E r \in Req : resp[r].status = 400 THEN "degraded" ELSE "healthy")

\* the dict health_check returns
health_check == HealthBody("healthy")

---------------------------------------------------------------------------
(* transcribe_video, step by step; r is the request                        *)

InitHandlerVars ==
    /\ pc = [r \in Req |-> "idle"]
    /\ url = [r \in Req |-> NoUrl]
    /\ platform = [r \in Req |-> "unset"]
    /\ temp_dir = [r \in Req |-> NoneDir]
    /\ audio_url = [r \in Req |-> <<>>]
    /\ audio_file = [r \in Req |-> NoPath]
    /\ calls = [r \in Req |-> <<>>]
    /\ recog = [r \in Req |-> "none"]
    /\ resp = [r \in Req |-> NoResp]
    /\ failure = [r \in Req |-> <<>>]
    /\ sent = [r \in Req |-> 0]
    /\ dirOwner = [n \in DirNames |-> NoOwner]
    /\ dirFiles = [n \in DirNames |-> {}]
    /\ healthResp = NoHealth

\* an exception with message msg, first raised with message first, reaches
\* the except clause of the handler; the finally clause is next
Fail(r, first, msg) ==
    /\ resp' = [resp EXCEPT ![r] = ExceptResponse(msg)]
    /\ failure' = [failure EXCEPT ![r] = first]
    /\ pc' = [pc EXCEPT ![r] = "finally"]

\* the request arrives: temp_dir = None; platform = detect_platform(url)
Begin(r) ==
    /\ pc[r] = "idle"
    /\ \E u \in UrlIds :
           /\ url' = [url EXCEPT ![r] = u]
           /\ platform' = [platform EXCEPT ![r] = detect_platform(HandlerUrls[u])]
    /\ pc' = [pc EXCEPT ![r] = "mkdtemp"]
    /\ UNCHANGED <<temp_dir, audio_url, audio_file, calls, recog, resp,
                   failure, sent, dirOwner, dirFiles, healthResp, pvars>>

\* temp_dir = tempfile.mkdtemp(): a new directory, or an OSError
MakeTempDir(r) ==
    /\ pc[r] = "mkdtemp"
    /\ \/ \E n \in mkdtemp(dirOwner) :
              /\ temp_dir' = [temp_dir EXCEPT ![r] = n]
              /\ dirOwner' = [dirOwner EXCEPT ![n] = r]
              /\ dirFiles' = [dirFiles EXCEPT ![n] = {}]
              /\ pc' = [pc EXCEPT ![r] = StrategyFor(platform[r])]
              /\ UNCHANGED <<resp, failure>>
       \/ /\ Fail(r, <<"No usable temporary directory">>,
                     <<"No usable temporary directory">>)
          /\ UNCHANGED <<temp_dir, dirOwner, dirFiles>>
    /\ UNCHANGED <<url, platform, audio_url, audio_file, calls, recog, sent,
                   healthResp, pvars>>

\* audio_url = get_youtube_audio_via_rapidapi(video_data.url)
Lookup(r) ==
    /\ pc[r] = "rapidapi"
    /\ calls' = [calls EXCEPT ![r] = Append(@, "get_youtube_audio_via_rapidapi")]
    /\ \E o \in LookupOutcomes :
           LET video_url == HandlerUrls[url[r]]
               res == get_youtube_audio_via_rapidapi(video_url, o)
               first == IF ExtractBody(video_url).kind = "raise"
                        THEN ExtractBody(video_url).msg
                        ELSE LookupBody(video_url, o).msg
           IN  IF res.kind = "return"
               THEN /\ audio_url' = [audio_url EXCEPT ![r] = res.val]
                    /\ pc' = [pc EXCEPT ![r] = "download"]
                    /\ UNCHANGED <<resp, failure>>
               ELSE /\ Fail(r, first, res.msg)
                    /\ UNCHANGED audio_url
    /\ UNCHANGED <<url, platform, temp_dir, audio_file, recog, sent,
                   dirOwner, dirFiles, healthResp, pvars>>

\* the files of directory d after a step that wrote file name, or did not
Written(d, name, written) ==
    IF written THEN [dirFiles EXCEPT ![d] = @ \cup {name}] ELSE dirFiles

\* audio_file = download_audio_from_url(audio_url, output_template)
Download(r) ==
    /\ pc[r] = "download"
    /\ calls' = [calls EXCEPT ![r] = Append(@, "download_audio_from_url")]
    /\ \E o \in DownloadOutcomes :
           LET out == OutputTemplate(temp_dir[r])
               res == download_audio_from_url(out, o)
           IN  /\ dirFiles' = Written(temp_dir[r], WithMp3(out).name, o.written)
               /\ IF res.kind = "return"
                  THEN /\ audio_file' = [audio_file EXCEPT ![r] = res.val]
                       /\ pc' = [pc EXCEPT ![r] = "transcribe"]
                       /\ UNCHANGED <<resp, failure>>
                  ELSE /\ Fail(r, DownloadBody(out, o).msg, res.msg)
                       /\ UNCHANGED audio_file
    /\ UNCHANGED <<url, platform, temp_dir, audio_url, recog, sent,
                   dirOwner, healthResp, pvars>>

\* audio_file = extract_audio_via_ytdlp(video_data.url, output_template)
Ytdlp(r) ==
    /\ pc[r] = "ytdlp"
    /\ calls' = [calls EXCEPT ![r] = Append(@, "extract_audio_via_ytdlp")]
    /\ \E o \in YtdlpOutcomes :
           LET out == OutputTemplate(temp_dir[r])
               res == extract_audio_via_ytdlp(out, o)
           IN  /\ dirFiles' = Written(temp_dir[r], WithMp3(out).name, o.written)
               /\ IF res.kind = "return"
                  THEN /\ audio_file' = [audio_file EXCEPT ![r] = res.val]
                       /\ pc' = [pc EXCEPT ![r] = "transcribe"]
                       /\ UNCHANGED <<resp, failure>>
                  ELSE /\ Fail(r, YtdlpBody(out, o).msg, res.msg)
                       /\ UNCHANGED audio_file
    /\ UNCHANGED <<url, platform, temp_dir, audio_url, recog, sent,
                   dirOwner, healthResp, pvars>>

\* transcript = transcribe_audio(audio_file); return TranscriptionResponse(...)
Transcribe(r) ==
    /\ pc[r] = "transcribe"
    /\ calls' = [calls EXCEPT ![r] = Append(@, "transcribe_audio")]
    /\ \E o \in RecognizerOutcomes :
           LET res == transcribe_audio(o)
           IN  /\ recog' = [recog EXCEPT ![r] = o.kind]
               /\ IF res.kind = "return"
                  THEN /\ resp' = [resp EXCEPT ![r] =
                                     SuccessResponse(url[r], res.val, platform[r])]
                       /\ pc' = [pc EXCEPT ![r] = "finally"]
                       /\ UNCHANGED failure
                  ELSE Fail(r, TranscribeBody(o).msg, res.msg)
    /\ UNCHANGED <<url, platform, temp_dir, audio_url, audio_file, sent,
                   dirOwner, dirFiles, healthResp, pvars>>

\* finally: if temp_dir and os.path.exists(temp_dir): shutil.rmtree(temp_dir);
\* then the pending response or HTTPException leaves the handler with its
\* status code, and nothing else of the call remains in the process
Finally(r) ==
    /\ pc[r] = "finally"
    /\ IF temp_dir[r] # NoneDir /\ dirOwner[temp_dir[r]] # NoOwner
       THEN /\ dirOwner' = rmtree(dirOwner, temp_dir[r])
            /\ dirFiles' = [dirFiles EXCEPT ![temp_dir[r]] = {}]
       ELSE UNCHANGED <<dirOwner, dirFiles>>
    /\ pc' = [pc EXCEPT ![r] = "done"]
    /\ url' = [url EXCEPT ![r] = NoUrl]
    /\ platform' = [platform EXCEPT ![r] = "unset"]
    /\ temp_dir' = [temp_dir EXCEPT ![r] = NoneDir]
    /\ audio_url' = [audio_url EXCEPT ![r] = <<>>]
    /\ audio_file' = [audio_file EXCEPT ![r] = NoPath]
    /\ calls' = [calls EXCEPT ![r] = <<>>]
    /\ recog' = [recog EXCEPT ![r] = "none"]
    /\ resp' = [resp EXCEPT ![r] = NoResp]
    /\ failure' = [failure EXCEPT ![r] = <<>>]
    /\ sent' = [sent EXCEPT ![r] = resp[r].status]
    /\ UNCHANGED <<healthResp, pvars>>

\* GET /health
Health ==
    /\ healthResp' = health_check
    /\ UNCHANGED <<pc, url, platform, temp_dir, audio_url, audio_file, calls,
                   recog, resp, failure, sent, dirOwner, dirFiles, pvars>>

Next ==
    \/ \E r \in Req :
           \/ Begin(r)
           \/ MakeTempDir(r)
           \/ Lookup(r)
           \/ Download(r)
           \/ Ytdlp(r)
           \/ Transcribe(r)
           \/ Finally(r)
    \/ Health

Init == InitHandlerVars /\ IdlePureVars
Spec == Init /\ [][Next]_vars

InitPure == InitHandlerVars /\ InitPureVars
SpecPure == InitPure /\ [][NextPure]_vars

---------------------------------------------------------------------------
(* Properties of transcribe_video and health_check, under Spec              *)

\* C1: once a request's handler has returned (on any exit path), no
\* directory created by that request's mkdtemp exists any more, and a
\* directory that does not exist holds no files.
C1_TempDirReleased ==
    /\ \A r \in Req : pc[r] = "done" => \A n \in DirNames : dirOwner[n] # r
    /\ \A n \in DirNames : dirOwner[n] = NoOwner => dirFiles[n] = {}

\* one request returned a success, another an error, both after the pipeline
\* ran in a directory of their own
C1_Witness ==
    \E r, s \in Req :
        /\ pc[r] = "done" /\ sent[r] = 200
        /\ pc[s] = "done" /\ sent[s] = 400
        /\ \A n \in DirNames : dirOwner[n] = NoOwner

\* m ends with the message parts e
EndsWith(m, e) == Len(e) <= Len(m) /\ SubSeq(m, Len(m) - Len(e) + 1, Len(m)) = e

\* C2: when a step of the pipeline raised, the handler is left through its
\* except clause: the pending response has status 400 and a detail that
\* ends with the message of the exception first raised; the only status
\* codes are 200 and 400, and 200 is never the answer to a failure.
C2_FailureIs400 ==
    \A r \in Req :
        /\ failure[r] # <<>> =>
               /\ pc[r] = "finally"
               /\ resp[r].status = 400
               /\ EndsWith(resp[r].detail, failure[r])
               /\ resp[r].body = NoBody
        /\ resp[r].status \in {0, 200, 400}
        /\ sent[r] \in {0, 200, 400}
        /\ resp[r].status = 400 => failure[r] # <<>>

\* a download that failed behind two wrappers, and a recognizer that failed
C2_Witness ==
    \E r, s \in Req :
        /\ resp[r].status = 400
        /\ resp[r].detail = <<"Failed to get YouTube audio via RapidAPI: ",
                              "Failed to extract video ID: ",
                              "Invalid YouTube URL">>
        /\ resp[s].status = 400
        /\ failure[s] = <<"Speech recognition service error: ",
                          "recognition connection failed">>

HealthyDescriptor ==
    [status |-> "healthy",
     service |-> "SAM - Video Transcription API",
     supported_platforms |->
         <<"YouTube (via RapidAPI)", "Vimeo", "TikTok", "Instagram",
           "Twitter/X", "Rumble", "DailyMotion", "And 1000+ more via yt-dlp">>]

\* C7: every step that changes the response of GET /health makes it the
\* fixed descriptor with status "healthy", whatever the requests are doing,
\* and such a step invokes no pipeline function and touches neither a
\* request nor the file system.
C7_HealthFixed ==
    [][healthResp' # healthResp =>
           /\ healthResp' = HealthyDescriptor
           /\ UNCHANGED <<pc, url, platform, temp_dir, audio_url, audio_file,
                          calls, recog, resp, failure, sent, dirOwner, dirFiles>>]_vars

\* /health answered while one request had failed and another was running
C7_Witness ==
    /\ healthResp = HealthyDescriptor
    /\ \E r, s \in Req :
           /\ pc[r] = "finally" /\ resp[r].status = 400
           /\ pc[s] = "transcribe"

Prefixes(q) == {SubSeq(q, 1, k) : k \in 0..Len(q)}

\* C8: the functions a request has invoked are a prefix of RapidAPI lookup,
\* download, transcription when the platform is youtube, and of yt-dlp,
\* transcription otherwise: one strategy, chosen by the platform, each
\* function at most once, none after a failure, and transcription only
\* with the audio file path the strategy returned.
C8_OneStrategy ==
    \A r \in Req :
        /\ platform[r] = "youtube" =>
               calls[r] \in Prefixes(<<"get_youtube_audio_via_rapidapi",
                                       "download_audio_from_url",
                                       "transcribe_audio">>)
        /\ platform[r] # "youtube" =>
               calls[r] \in Prefixes(<<"extract_audio_via_ytdlp",
                                       "transcribe_audio">>)
        /\ pc[r] = "download" => calls[r] = <<"get_youtube_audio_via_rapidapi">>
        /\ pc[r] = "transcribe" =>
               /\ calls[r] # <<>>
               /\ audio_file[r] = WithMp3(OutputTemplate(temp_dir[r]))
               /\ audio_file[r].name \in dirFiles[temp_dir[r]]
        /\ (\E i \in 1..Len(calls[r]) : calls[r][i] = "transcribe_audio") =>
               audio_file[r] # NoPath
        /\ failure[r] # <<>> /\ temp_dir[r] # NoneDir =>
               /\ calls[r] # <<>>
               /\ calls[r][Len(calls[r])] = "transcribe_audio" <=> recog[r] # "none"

\* a youtube request that went through all three functions, and a vimeo
\* request whose yt-dlp extraction failed and was not replaced
C8_Witness ==
    \E r, s \in Req :
        /\ platform[r] = "youtube"
        /\ calls[r] = <<"get_youtube_audio_via_rapidapi",
                        "download_audio_from_url", "transcribe_audio">>
        /\ platform[s] = "vimeo"
        /\ calls[s] = <<"extract_audio_via_ytdlp">>
        /\ pc[s] = "finally"

\* C9: a recognizer that could not understand the audio gives a success
\* response carrying "Could not understand the audio"; a recognizer whose
\* service failed gives a 400 error.
C9_RecognizerOutcomes ==
    \A r \in Req :
        /\ recog[r] = "unknown_value" =>
               /\ pc[r] = "finally"
               /\ resp[r].status = 200
               /\ resp[r].body = [url |-> url[r],
                                  transcript |-> "Could not understand the audio",
                                  platform |-> platform[r],
                                  status |-> "success"]
        /\ recog[r] = "request_error" =>
               /\ pc[r] = "finally"
               /\ resp[r].status = 400
               /\ resp[r].detail = <<"Failed to transcribe audio: ",
                                     "Speech recognition service error: ",
                                     "recognition connection failed">>

C9_Witness ==
    \E r, s \in Req :
        /\ recog[r] = "unknown_value" /\ resp[r].status = 200
        /\ recog[s] = "request_error" /\ resp[s].status = 400

\* the variables of request s and its directory
Own(s) == <<pc[s], url[s], platform[s], temp_dir[s], audio_url[s],
            audio_file[s], calls[s], recog[s], resp[s], failure[s], sent[s]>>

\* C10: in every interleaving, two requests never hold the same temporary
\* directory, a request's directory exists and is its own until its own
\* finally clause, and a step of one request (or of /health) changes
\* nothing of another request: not its variables, not its directory, not
\* the files in it.
C10_Isolation ==
    [][/\ \A r, s \in Req :
              (r # s /\ temp_dir'[r] # NoneDir /\ temp_dir'[s] # NoneDir)
                  => temp_dir'[r] # temp_dir'[s]
       /\ \A s \in Req :
              temp_dir'[s] # NoneDir => dirOwner'[temp_dir'[s]] = s
       /\ \A s \in Req :
              pc'[s] = pc[s] =>
                  /\ Own(s)' = Own(s)
                  /\ temp_dir[s] # NoneDir =>
                         /\ dirOwner'[temp_dir[s]] = dirOwner[temp_dir[s]]
                         /\ dirFiles'[temp_dir[s]] = dirFiles[temp_dir[s]]]_vars

\* one request about to clean up while another holds its downloaded audio
C10_Witness ==
    \E r, s \in Req :
        /\ r # s
        /\ pc[r] = "finally" /\ temp_dir[r] # NoneDir
        /\ pc[s] = "transcribe" /\ dirFiles[temp_dir[s]] # {}

---------------------------------------------------------------------------
(* Properties of detect_platform and extract_youtube_video_id, under       *)
(* SpecPure                                                                *)

PlatformLabels == {"youtube", "vimeo", "tiktok", "instagram", "twitter",
                   "rumble", "dailymotion", "other"}

KnownDomains == {<<"y","o","u","t","u","b","e",".","c","o","m">>, <<"y","o","u","t","u",".","b","e">>, <<"v","i","m","e","o",".","c","o","m">>, <<"t","i","k","t","o","k",".","c","o","m">>,
                 <<"i","n","s","t","a","g","r","a","m",".","c","o","m">>, <<"t","w","i","t","t","e","r",".","c","o","m">>, <<"x",".","c","o","m">>, <<"r","u","m","b","l","e",".","c","o","m">>,
                 <<"d","a","i","l","y","m","o","t","i","o","n",".","c","o","m">>}

\* the host of the URL, lowered: its netloc, or without "//" the text before
\* the first "/"
HostOf(u) ==
    LET parts == urlsplit(u)
    IN  Lower(IF parts.netloc # <<>> THEN parts.netloc
              ELSE SplitFirst(parts.path, "/"))

\* h is domain d or a subdomain of it
DomainOrSub(h, d) ==
    \/ h = d
    \/ Len(h) > Len(d) /\ From(h, Len(h) - Len(d)) = <<".">> \o d

KnownDomain(u) == \E d \in KnownDomains : DomainOrSub(HostOf(u), d)

MentionsYoutube(u) == Contains(u, <<"y","o","u","t","u","b","e",".","c","o","m">>) \/ Contains(u, <<"y","o","u","t","u",".","b","e">>)

\* C3: detect_platform returns a label of the fixed set; 'youtube' for a
\* URL that contains "youtube.com" or "youtu.be"; and 'other' for a URL
\* (without those) whose domain is not a known platform's.
C3_DetectPlatform ==
    p_pc # "start" =>
        /\ p_platform \in PlatformLabels
        /\ MentionsYoutube(p_url) => p_platform = "youtube"
        /\ (~MentionsYoutube(p_url) /\ ~KnownDomain(p_url)) => p_platform = "other"

Extracted == p_pc \in {"extracted", "fedback"}

\* the `v` parameter of the URL's query string, None when it has none
VParam(u) == parse_qs_get(urlsplit(u).query, <<"v">>)

\* one of the three rules of the extractor applies to u
SomeRuleMatches(u) ==
    \/ Contains(u, <<"y","o","u","t","u",".","b","e">>) /\ SplitFirst(SplitLast(u, "/"), "?") # <<>>
    \/ VParam(u) # PyNone
    \/ Len(u) = IdLen

\* C4: extract_youtube_video_id raises for every input that matches none of
\* its rules, and whatever it returns is a non-empty str.
C4_ExtractRaises ==
    Extracted =>
        /\ ~SomeRuleMatches(p_url) => p_id.kind = "raise"
        /\ p_id.kind = "return" => (p_id.val.t = "str" /\ p_id.val.s # <<>>)

\* C5: a non-empty id that extract_youtube_video_id returned is returned
\* unchanged when it is passed in by itself.
C5_Idempotent ==
    (p_pc = "fedback" /\ p_id.val.s # <<>>)
        => (p_id2.kind = "return" /\ p_id2.val = p_id.val)

\* the characters of a video id
IdChars == Range(UpperChars) \cup Range(LowerChars) \cup Range(DigitChars)
               \cup {"-", "_"}

\* C6: for a URL that detect_platform classifies as 'youtube' and whose
\* query string carries a `v` parameter with an 11-character value (of
\* letters, digits, "-" and "_"), the extractor returns that value.
C6_VParamReturned ==
    (Extracted /\ p_platform = "youtube" /\ VParam(p_url).t = "str"
        /\ Len(VParam(p_url).s) = IdLen /\ Range(VParam(p_url).s) \subseteq IdChars)
        => p_id = Return(VParam(p_url))

============================================================================
